---------------------------- MODULE Spec2Model ----------------------------
(***************************************************************************)
(* Chronicle task tracker: the Flask backend (backend/app.py) and its AI   *)
(* gateway (backend/groq_service.py) as a state machine.                   *)
(*                                                                         *)
(* Strings a handler trims are tuples of one-character strings, so that    *)
(* str.strip() is computed.  Timestamps are records naming the shape of    *)
(* the ISO string (no offset, "Z", "+hh:mm", "-hh:mm", unparseable, empty, *)
(* JSON null) with its wall-clock reading t and its offset off, both in    *)
(* abstract clock units, so that the parse in list_tasks is computed.      *)
(* uuid4() is modelled as the next unused integer.                         *)
(*                                                                         *)
(* Spec serves the task and note routes one request at a time, SpecLists   *)
(* is Spec without the read-only routes and with any number of list calls, *)
(* SpecAI serves the AI routes, and SpecThreads serves a list request and  *)
(* update requests in two threads, statement by statement.                 *)
(***************************************************************************)
EXTENDS Integers, Sequences, FiniteSets, TLC

VARIABLES
    tasks,          \* app.py:20  task id -> task dict
    notes,          \* app.py:21  note id -> note dict
    chat_history,   \* app.py:26  list of {role, content}
    now,            \* the wall clock read by datetime.now(timezone.utc)
    resp,           \* the response of the last request served
    nwrites,        \* number of create/update/add_note requests served so far
    nreads,         \* number of GET and DELETE requests served so far
    created,        \* ids of the tasks stored by create_task
    added,          \* ids of the notes stored by add_note
    env,            \* the GEMINI_API_KEY environment variable at import time
    aiPc,           \* position of the request thread inside _call_gemini
    attempt,        \* groq_service.py:56  loop variable
    sleeps,         \* the time.sleep() waits of the current call, in order
    httpCalls,      \* the urlopen() calls of the current call
    call,           \* the AI request being served
    lpc,            \* position of a thread inside the loop of list_tasks
    lcur,           \* the task that thread's loop is at
    lnow,           \* app.py:141  its local now
    lfilter,        \* app.py:136  its local status_filter
    lfb,            \* app.py:146  its local finish_by
    lst,            \* app.py:147  its local start_time
    upc,            \* position of a thread inside update_task
    uid,            \* app.py:214  its task_id
    udata,          \* app.py:220  its data
    settled         \* ids whose latest update has returned 200 with status completed

storeVars == <<tasks, notes, now, nwrites, nreads, created, added>>
aiVars == <<env, aiPc, attempt, sleeps, httpCalls, call>>
listLocals == <<lpc, lcur, lnow, lfilter, lfb, lst>>
updateLocals == <<upc, uid, udata, settled>>
threadVars == <<listLocals, updateLocals>>
vars == <<tasks, notes, chat_history, now, resp, nwrites, nreads, created, added,
          env, aiPc, attempt, sleeps, httpCalls, call,
          lpc, lcur, lnow, lfilter, lfb, lst, upc, uid, udata, settled>>

---------------------------------------------------------------------------
(* Bounds of the model *)

MaxOps == 2
MaxReads == 1
MaxTime == 2
MaxChat == 2

---------------------------------------------------------------------------
(* Strings and str.strip() *)

WS == {" "}

RECURSIVE LStrip(_)
LStrip(s) == IF s = <<>> THEN s
             ELSE IF Head(s) \in WS THEN LStrip(Tail(s)) ELSE s

RECURSIVE RStrip(_)
RStrip(s) == IF s = <<>> THEN s
             ELSE IF s[Len(s)] \in WS THEN RStrip(SubSeq(s, 1, Len(s) - 1)) ELSE s

\* The string as it was sent.
StripNone(s) == s

Strip(s) == RStrip(LStrip(s))

\* A JSON string member of a request body: absent, null, or a string.
AbsentS == [k |-> "absent", s |-> <<>>]
NullS == [k |-> "null", s |-> <<>>]
Str(s) == [k |-> "str", s |-> s]

\* (data.get(key) or "")
OrEmpty(v) == IF v.k = "str" THEN v.s ELSE <<>>

---------------------------------------------------------------------------
(* Timestamps *)

Ts(fmt, t, off) == [fmt |-> fmt, t |-> t, off |-> off]
AbsentT == Ts("absent", 0, 0)
NullT == Ts("null", 0, 0)
EmptyT == Ts("empty", 0, 0)
BadT == Ts("bad", 0, 0)
Naive(t) == Ts("naive", t, 0)
Zulu(t) == Ts("Z", t, 0)
Plus(t, off) == Ts("plus", t, off)
Minus(t, off) == Ts("minus", t, off)

\* data.get(key): an absent key reads as None
GetT(v) == IF v.fmt = "absent" THEN NullT ELSE v

\* Python truth of the stored value: None and "" are false
Truthy(v) == v.fmt \notin {"absent", "null", "empty"}

\* The instant an ISO-8601 string denotes (offset-less strings are UTC).
Denotes(v) == CASE v.fmt = "plus" -> v.t - v.off
                [] v.fmt = "minus" -> v.t + v.off
                [] OTHER -> v.t

\* The parse of list_tasks: a string with neither "+" nor "Z" goes through
\* fromisoformat(s).replace(tzinfo=utc), which overwrites a "-hh:mm" offset;
\* any other string through fromisoformat(s.replace("Z", "+00:00")).
FromIso(v) ==
    CASE v.fmt = "bad" -> [ok |-> FALSE, at |-> 0]
      [] v.fmt \in {"naive", "minus"} -> [ok |-> TRUE, at |-> v.t]
      [] v.fmt = "Z" -> [ok |-> TRUE, at |-> v.t]
      [] v.fmt = "plus" -> [ok |-> TRUE, at |-> v.t - v.off]
      [] OTHER -> [ok |-> FALSE, at |-> 0]

---------------------------------------------------------------------------
(* The stores after import: seed_data() *)

Statuses == {"pending", "in-progress", "completed"}

\* Titles and descriptions of the samples are abbreviated to their initials.
sample_tasks == <<
    [title |-> <<"D", "L", "S">>, description |-> <<"w">>, status |-> "in-progress"],
    [title |-> <<"S", "U", "C">>, description |-> <<"c">>, status |-> "pending"],
    [title |-> <<"W", "U", "T">>, description |-> <<"a">>, status |-> "completed"],
    [title |-> <<"I", "P", "N">>, description |-> <<"i">>, status |-> "pending"],
    [title |-> <<"A", "R", "L">>, description |-> <<"r">>, status |-> "in-progress"] >>

\* sample_notes flattened in insertion order: the task index and the text
sample_notes == <<
    [task |-> 1, content |-> <<"a", "1">>],
    [task |-> 1, content |-> <<"a", "2">>],
    [task |-> 1, content |-> <<"a", "3">>],
    [task |-> 2, content |-> <<"b", "1">>],
    [task |-> 3, content |-> <<"c", "1">>],
    [task |-> 3, content |-> <<"c", "2">>],
    [task |-> 3, content |-> <<"c", "3">>],
    [task |-> 5, content |-> <<"e", "1">>],
    [task |-> 5, content |-> <<"e", "2">>] >>

\* The clock reading while the module is imported; serving starts later.
ImportTime == 0

seed_tasks ==
    [i \in 1..Len(sample_tasks) |->
        [id |-> i,
         title |-> sample_tasks[i].title,
         description |-> sample_tasks[i].description,
         status |-> sample_tasks[i].status,
         createdAt |-> ImportTime,
         startTime |-> NullT,
         finishBy |-> NullT,
         dueDate |-> NullT,
         reminderEnabled |-> FALSE,
         overdue |-> FALSE]]

seed_notes ==
    [j \in 1..Len(sample_notes) |->
        [id |-> j,
         taskId |-> sample_notes[j].task,
         content |-> sample_notes[j].content,
         createdAt |-> ImportTime]]

---------------------------------------------------------------------------
(* Helper utilities *)

\* uuid.uuid4(): an id no stored record has
NewTaskId == Cardinality(DOMAIN tasks) + 1
NewNoteId == Cardinality(DOMAIN notes) + 1

\* sorted(ids, key): Python's stable sort of the dict's insertion order (the
\* ids ascend in insertion order); desc is reverse=True, which keeps the
\* order of equal keys.
RECURSIVE SortedIds(_, _, _)
SortedIds(S, key, desc) ==
    IF S = {} THEN <<>>
    ELSE LET first == CHOOSE x \in S : \A y \in S :
                         \/ IF desc THEN key[x] > key[y] ELSE key[x] < key[y]
                         \/ key[x] = key[y] /\ x <= y
         IN <<first>> \o SortedIds(S \ {first}, key, desc)

\* The records of store f in the order of the id sequence order
Pick(f, order) == [i \in 1..Len(order) |-> f[order[i]]]

\* The notes of a task in store ns, newest first.
NotesInDesc(ns, task_id) ==
    LET mine == {n \in DOMAIN ns : ns[n].taskId = task_id}
    IN Pick(ns, SortedIds(mine, [n \in mine |-> ns[n].createdAt], TRUE))

\* lines 110-113 over the note store ns: the notes of a task, oldest first
NotesIn(ns, task_id) ==
    LET mine == {n \in DOMAIN ns : ns[n].taskId = task_id}
    IN Pick(ns, SortedIds(mine, [n \in mine |-> ns[n].createdAt], FALSE))

get_notes_for_task(task_id) == NotesIn(notes, task_id)

\* lines 118-123 over the note store ns
EnrichIn(task, ns) ==
    LET task_notes == NotesIn(ns, task.id)
    IN [id |-> task.id,
        title |-> task.title,
        description |-> task.description,
        status |-> task.status,
        createdAt |-> task.createdAt,
        startTime |-> task.startTime,
        finishBy |-> task.finishBy,
        dueDate |-> task.dueDate,
        reminderEnabled |-> task.reminderEnabled,
        overdue |-> task.overdue,
        notesCount |-> Len(task_notes),
        latestNote |-> IF Len(task_notes) > 0
                       THEN Str(task_notes[Len(task_notes)].content)
                       ELSE NullS]

enrich_task(task) == EnrichIn(task, notes)

\* A response: the status code, the tasks or notes of a store route's body,
\* the text of an AI route's body and the exception an AI route reports.
Response(op, id, code, tasksOut, notesOut) ==
    [op |-> op, id |-> id, code |-> code, tasksOut |-> tasksOut, notesOut |-> notesOut,
     text |-> NullS, exc |-> "none"]

AiResponse(op, id, code, text, exc) ==
    [op |-> op, id |-> id, code |-> code, tasksOut |-> <<>>, notesOut |-> <<>>,
     text |-> text, exc |-> exc]

make_error(op, id, code) == Response(op, id, code, <<>>, <<>>)

---------------------------------------------------------------------------
(* Status derivation, the loop of list_tasks *)

\* lines 148-155: the finishBy check of one task at clock reading n
FinishStepNoFlag(t, n) ==
    IF /\ Truthy(t.finishBy)
       /\ FromIso(t.finishBy).ok
       /\ FromIso(t.finishBy).at < n
       /\ t.status # "completed"
    THEN [t EXCEPT !.status = "pending"]
    ELSE t

FinishStep(t, n) ==
    IF /\ Truthy(t.finishBy)
       /\ FromIso(t.finishBy).ok
       /\ FromIso(t.finishBy).at < n
       /\ t.status # "completed"
    THEN [t EXCEPT !.status = "pending", !.overdue = TRUE]
    ELSE t

\* lines 156-162: the startTime check of one task at clock reading n
StartStep(t, n) ==
    IF /\ Truthy(t.startTime)
       /\ t.status = "pending"
       /\ FromIso(t.startTime).ok
       /\ FromIso(t.startTime).at <= n
    THEN [t EXCEPT !.status = "in-progress"]
    ELSE t

\* The loop body without the skip of completed tasks.
DeriveTaskNoSkip(t, n) ==
    LET u == IF /\ Truthy(t.finishBy)
                /\ FromIso(t.finishBy).ok
                /\ FromIso(t.finishBy).at < n
             THEN [t EXCEPT !.status = "pending", !.overdue = TRUE]
             ELSE t
    IN StartStep(u, n)

\* The startTime check made on the status read before the finishBy check.
DeriveTaskStale(t, n) ==
    IF t.status = "completed" THEN t
    ELSE LET u == FinishStep(t, n)
         IN IF /\ Truthy(t.startTime)
               /\ t.status = "pending"
               /\ FromIso(t.startTime).ok
               /\ FromIso(t.startTime).at <= n
            THEN [u EXCEPT !.status = "in-progress"]
            ELSE u

\* lines 143-162: one iteration of the loop
DeriveTask(t, n) ==
    IF t.status = "completed" THEN t
    ELSE StartStep(FinishStep(t, n), n)

\* lines 142-162: the whole pass
Derive(ts, n) == [id \in DOMAIN ts |-> DeriveTask(ts[id], n)]

---------------------------------------------------------------------------
(* Request bodies *)

\* bool(value) of a JSON member: true and a non-empty string are true
Bool(v) == v \in {"true", "text"}

NoBody ==
    [title |-> AbsentS, description |-> AbsentS, status |-> "absent",
     startTime |-> AbsentT, finishBy |-> AbsentT, dueDate |-> AbsentT,
     reminderEnabled |-> "absent",
     id |-> "absent", createdAt |-> AbsentT, overdue |-> "absent"]

\* The members a handler reads; id, createdAt and overdue are read by none.
BodyFields == {"title", "description", "status", "startTime", "finishBy",
               "dueDate", "reminderEnabled"}

CreateBodies == {
    [NoBody EXCEPT !.title = Str(<<" ", "x", " ">>)],
    [NoBody EXCEPT !.title = Str(<<" ">>), !.status = "completed"],
    NoBody,
    [NoBody EXCEPT !.title = Str(<<"x">>), !.status = "done"],
    [NoBody EXCEPT !.title = Str(<<"y">>), !.status = "completed",
                   !.description = Str(<<"d", " ">>), !.reminderEnabled = "text"],
    [NoBody EXCEPT !.title = Str(<<"z">>), !.status = "in-progress",
                   !.finishBy = Naive(0), !.overdue = "true", !.id = "other"] }

UpdateBodies == {
    [NoBody EXCEPT !.status = "completed"],
    [NoBody EXCEPT !.status = "pending"],
    [NoBody EXCEPT !.status = "done"],
    [NoBody EXCEPT !.status = "in-progress", !.title = Str(<<" ">>)],
    [NoBody EXCEPT !.title = Str(<<" ", "t">>), !.description = NullS,
                   !.dueDate = Naive(2), !.reminderEnabled = "true"],
    [NoBody EXCEPT !.id = "other", !.createdAt = Naive(2), !.overdue = "true"],
    [NoBody EXCEPT !.finishBy = Naive(0)],
    [NoBody EXCEPT !.finishBy = Naive(1)],
    [NoBody EXCEPT !.finishBy = NullT],
    [NoBody EXCEPT !.finishBy = BadT],
    [NoBody EXCEPT !.finishBy = Minus(0, 2)],
    [NoBody EXCEPT !.finishBy = Plus(2, 2), !.startTime = Zulu(2)],
    [NoBody EXCEPT !.startTime = Naive(0), !.finishBy = Naive(0)] }

NoteBodies == {
    [content |-> Str(<<" ", "n">>), markComplete |-> "absent", overdue |-> "absent"],
    [content |-> Str(<<"m">>), markComplete |-> "true", overdue |-> "true"],
    [content |-> Str(<<" ">>), markComplete |-> "true", overdue |-> "absent"] }

StatusFilters == {"absent", "pending", "done"}

\* Path parameters: every stored id and one that is not stored
NoSuchId == 99
PathIds == DOMAIN tasks \cup {NoSuchId}

---------------------------------------------------------------------------
(* Task routes *)

\* The view sorted by createdAt ascending.
ListViewAsc(ts, status_filter) ==
    LET keep == IF status_filter \in Statuses
                THEN {id \in DOMAIN ts : ts[id].status = status_filter}
                ELSE DOMAIN ts
        shown == [id \in keep |-> enrich_task(ts[id])]
    IN Pick(shown, SortedIds(keep, [id \in keep |-> ts[id].createdAt], FALSE))

\* lines 164-171: enrich, filter, sort by createdAt descending
ListView(ts, status_filter) ==
    LET keep == IF status_filter \in Statuses
                THEN {id \in DOMAIN ts : ts[id].status = status_filter}
                ELSE DOMAIN ts
        shown == [id \in keep |-> enrich_task(ts[id])]
    IN Pick(shown, SortedIds(keep, [id \in keep |-> ts[id].createdAt], TRUE))

\* lines 136-171: the handler of GET /tasks
list_tasks_body(status_filter) ==
    /\ tasks' = Derive(tasks, now)
    /\ resp' = Response("list", 0, 200, ListView(tasks', status_filter), <<>>)
    /\ UNCHANGED <<notes, chat_history, now, nwrites, created, added>>
    /\ UNCHANGED <<aiVars, threadVars>>

\* GET /tasks
list_tasks(status_filter) ==
    /\ nreads < MaxReads
    /\ nreads' = nreads + 1
    /\ list_tasks_body(status_filter)

\* GET /tasks/<task_id>
get_task(task_id) ==
    /\ resp' = IF task_id \notin DOMAIN tasks
               THEN make_error("get", task_id, 404)
               ELSE Response("get", task_id, 200, <<enrich_task(tasks[task_id])>>, <<>>)
    /\ nreads < MaxReads
    /\ nreads' = nreads + 1
    /\ UNCHANGED <<tasks, notes, chat_history, now, nwrites, created, added>>
    /\ UNCHANGED <<aiVars, threadVars>>

\* POST /tasks
create_task(data) ==
    LET title == Strip(OrEmpty(data.title))
        description == Strip(OrEmpty(data.description))
        status == IF data.status = "absent" THEN "pending" ELSE data.status
        task_id == NewTaskId
        task == [id |-> task_id,
                 title |-> title,
                 description |-> description,
                 status |-> status,
                 createdAt |-> now,
                 startTime |-> GetT(data.startTime),
                 finishBy |-> GetT(data.finishBy),
                 dueDate |-> GetT(data.dueDate),
                 reminderEnabled |-> Bool(data.reminderEnabled),
                 overdue |-> FALSE]
    IN /\ nwrites < MaxOps
       /\ nwrites' = nwrites + 1
       /\ IF title = <<>> \/ status \notin Statuses
          THEN /\ resp' = make_error("create", 0, 400)
               /\ UNCHANGED <<tasks, created>>
          ELSE /\ tasks' = [i \in DOMAIN tasks \cup {task_id} |->
                               IF i = task_id THEN task ELSE tasks[i]]
               /\ created' = created \cup {task_id}
               /\ resp' = Response("create", task_id, 201,
                                   <<enrich_task(task)>>, <<>>)
       /\ UNCHANGED <<notes, chat_history, now, nreads, added>>
       /\ UNCHANGED <<aiVars, threadVars>>

\* lines 222-225
SetStatus(task, data) ==
    IF data.status # "absent" THEN [task EXCEPT !.status = data.status] ELSE task

\* lines 227-231
SetTitle(task, data) ==
    IF data.title.k # "absent"
    THEN [task EXCEPT !.title = Strip(OrEmpty(data.title))] ELSE task

\* The description written whether or not the request names it.
SetDescriptionAlways(task, data) ==
    [task EXCEPT !.description = Strip(OrEmpty(data.description))]

\* lines 233-234
SetDescription(task, data) ==
    IF data.description.k # "absent"
    THEN [task EXCEPT !.description = Strip(OrEmpty(data.description))] ELSE task

\* The members of lines 236-246 and the overdue member of the body as well.
SetRestOverdue(task, data) ==
    [task EXCEPT
        !.startTime = IF data.startTime.fmt # "absent" THEN data.startTime ELSE @,
        !.finishBy = IF data.finishBy.fmt # "absent" THEN data.finishBy ELSE @,
        !.dueDate = IF data.dueDate.fmt # "absent" THEN data.dueDate ELSE @,
        !.reminderEnabled = IF data.reminderEnabled # "absent"
                            THEN Bool(data.reminderEnabled) ELSE @,
        !.overdue = IF data.overdue # "absent" THEN Bool(data.overdue) ELSE @]

\* lines 236-246
SetRest(task, data) ==
    [task EXCEPT
        !.startTime = IF data.startTime.fmt # "absent" THEN data.startTime ELSE @,
        !.finishBy = IF data.finishBy.fmt # "absent" THEN data.finishBy ELSE @,
        !.dueDate = IF data.dueDate.fmt # "absent" THEN data.dueDate ELSE @,
        !.reminderEnabled = IF data.reminderEnabled # "absent"
                            THEN Bool(data.reminderEnabled) ELSE @]

\* lines 248-250: task.pop("overdue", None)
ClearOverdue(task) ==
    IF task.status = "completed" THEN [task EXCEPT !.overdue = FALSE] ELSE task

\* PATCH /tasks/<task_id>: the assignments are made in order, so a request
\* rejected at the title check has already written the status.
update_task(task_id, data) ==
    /\ nwrites < MaxOps
    /\ nwrites' = nwrites + 1
    /\ IF task_id \notin DOMAIN tasks
       THEN /\ resp' = make_error("update", task_id, 404)
            /\ UNCHANGED tasks
       ELSE IF data.status # "absent" /\ data.status \notin Statuses
       THEN /\ resp' = make_error("update", task_id, 400)
            /\ UNCHANGED tasks
       ELSE IF data.title.k # "absent" /\ Strip(OrEmpty(data.title)) = <<>>
       THEN /\ resp' = make_error("update", task_id, 400)
            /\ tasks' = [tasks EXCEPT ![task_id] = SetStatus(@, data)]
       ELSE /\ tasks' = [tasks EXCEPT ![task_id] =
                ClearOverdue(SetRest(SetDescription(SetTitle(SetStatus(@, data),
                                                             data), data), data))]
            /\ resp' = Response("update", task_id, 200,
                                <<enrich_task(tasks'[task_id])>>, <<>>)
    /\ UNCHANGED <<notes, chat_history, now, nreads, created, added>>
    /\ UNCHANGED <<aiVars, threadVars>>

\* DELETE /tasks/<task_id>: the rule /tasks/<task_id> is registered for GET
\* and PATCH only, so the router answers 405 and no handler runs.
delete_task(task_id) ==
    /\ resp' = make_error("delete", task_id, 405)
    /\ nreads < MaxReads
    /\ nreads' = nreads + 1
    /\ UNCHANGED <<tasks, notes, chat_history, now, nwrites, created, added>>
    /\ UNCHANGED <<aiVars, threadVars>>

---------------------------------------------------------------------------
(* Notes routes *)

\* GET /tasks/<task_id>/notes
list_notes(task_id) ==
    /\ resp' = IF task_id \notin DOMAIN tasks
               THEN make_error("list_notes", task_id, 404)
               ELSE Response("list_notes", task_id, 200, <<>>,
                             get_notes_for_task(task_id))
    /\ nreads < MaxReads
    /\ nreads' = nreads + 1
    /\ UNCHANGED <<tasks, notes, chat_history, now, nwrites, created, added>>
    /\ UNCHANGED <<aiVars, threadVars>>

\* The lookup that lets every task id through.
AddNoteFoundAny(task_id) == TRUE

\* lines 270-272
AddNoteFound(task_id) == task_id \in DOMAIN tasks

\* POST /tasks/<task_id>/notes
add_note(task_id, data) ==
    LET content == Strip(OrEmpty(data.content))
        note_id == NewNoteId
        note == [id |-> note_id,
                 taskId |-> task_id,
                 content |-> content,
                 createdAt |-> now]
    IN /\ nwrites < MaxOps
       /\ nwrites' = nwrites + 1
       /\ IF ~AddNoteFound(task_id)
          THEN /\ resp' = make_error("add_note", task_id, 404)
               /\ UNCHANGED <<tasks, notes, added>>
          ELSE IF content = <<>>
          THEN /\ resp' = make_error("add_note", task_id, 400)
               /\ UNCHANGED <<tasks, notes, added>>
          ELSE /\ tasks' = IF data.markComplete = "true" /\ task_id \in DOMAIN tasks
                           THEN [tasks EXCEPT ![task_id].status = "completed"]
                           ELSE tasks
               /\ notes' = [j \in DOMAIN notes \cup {note_id} |->
                               IF j = note_id THEN note ELSE notes[j]]
               /\ added' = added \cup {note_id}
               /\ resp' = Response("add_note", task_id, 201, <<>>, <<note>>)
       /\ UNCHANGED <<chat_history, now, nreads, created>>
       /\ UNCHANGED <<aiVars, threadVars>>

---------------------------------------------------------------------------
(* The clock *)

Tick ==
    /\ now < MaxTime
    /\ now' = now + 1
    /\ UNCHANGED <<tasks, notes, chat_history, resp, nwrites, nreads, created, added>>
    /\ UNCHANGED <<aiVars, threadVars>>

---------------------------------------------------------------------------
(* AI gateway: groq_service.py *)

Unset == "<unset>"
Placeholder == "YOUR_GEMINI_API_KEY_HERE"
DefaultKey == "AIzaSy-key-in-source"
EnvKeys == {Unset, Placeholder, "", "user-key"}

\* line 14: os.environ.get("GEMINI_API_KEY", <the key written in the source>)
GEMINI_API_KEY == IF env = Unset THEN DefaultKey ELSE env

\* line 23
KeyConfigured == GEMINI_API_KEY # Placeholder

max_retries == 3
BackoffUnit == 15
HistoryWindow == 10

Fallback == <<"I", "c", "n", "g">>

\* What one urlopen() call can meet
Outcomes == {
    [kind |-> "text", code |-> 200, text |-> <<"r">>],
    [kind |-> "empty_text", code |-> 200, text |-> <<>>],
    [kind |-> "no_text", code |-> 200, text |-> <<>>],
    [kind |-> "no_candidates", code |-> 200, text |-> <<>>],
    [kind |-> "http", code |-> 429, text |-> <<>>],
    [kind |-> "http", code |-> 500, text |-> <<>>],
    [kind |-> "transport", code |-> 0, text |-> <<>>] }

Returned(text) == [kind |-> "return", text |-> text, exc |-> "none"]
Raised(exc) == [kind |-> "raise", text |-> NullS, exc |-> exc]

\* A 429 answer slept on at every attempt, the last one too.
ShouldRetryAlways(code, n) == code = 429 /\ n < max_retries

\* line 77
ShouldRetry(code, n) == code = 429 /\ n < max_retries - 1

\* chat_history[-10:]
LastN(h, n) == IF Len(h) <= n THEN h ELSE SubSeq(h, Len(h) - n + 1, Len(h))

\* lines 33-39: the contents of the payload; a system message is not content
\* and "assistant" is sent as "model"
Contents(messages) ==
    LET keep == SelectSeq(messages, LAMBDA m : m.role \in {"user", "assistant"})
    IN [i \in 1..Len(keep) |->
           [role |-> IF keep[i].role = "assistant" THEN "model" ELSE "user",
            content |-> keep[i].content]]

Entry(role, content) == [role |-> role, content |-> content]

\* The end of a handler that stores the user's message before the call and
\* keeps it when the call fails.
CompleteKeepUser(result) ==
    /\ aiPc' = "idle"
    /\ IF result.kind = "raise"
       THEN /\ resp' = AiResponse(call.op, call.id, 500, NullS, result.exc)
            /\ chat_history' =
                 IF call.op = "chat"
                 THEN Append(chat_history, Entry("user", Str(call.message)))
                 ELSE chat_history
       ELSE /\ resp' = AiResponse(call.op, call.id, 200, result.text, "none")
            /\ chat_history' =
                 IF call.op = "chat"
                 THEN chat_history \o <<Entry("user", Str(call.message)),
                                        Entry("assistant", result.text)>>
                 ELSE chat_history

\* The end of a handler's try block, with what _call_gemini returned or raised
Complete(result) ==
    /\ aiPc' = "idle"
    /\ IF result.kind = "raise"
       THEN /\ resp' = AiResponse(call.op, call.id, 500, NullS, result.exc)
            /\ UNCHANGED chat_history
       ELSE /\ resp' = AiResponse(call.op, call.id, 200, result.text, "none")
            /\ chat_history' =
                 IF call.op = "chat"
                 THEN chat_history \o <<Entry("user", Str(call.message)),
                                        Entry("assistant", result.text)>>
                 ELSE chat_history

\* lines 19-53: the key check and the payload, entered from a handler
StartCall(op, id, message, messages) ==
    /\ httpCalls' = 0
    /\ sleeps' = <<>>
    /\ attempt' = 0
    /\ call' = [op |-> op, id |-> id, message |-> message, sent |-> Contents(messages)]
    /\ IF ~KeyConfigured
       THEN /\ resp' = AiResponse(op, id, 500, NullS, "ValueError")
            /\ aiPc' = "idle"
       ELSE /\ aiPc' = "loop"
            /\ UNCHANGED resp
    /\ UNCHANGED <<chat_history, env>>
    /\ UNCHANGED <<storeVars, threadVars>>

\* POST /tasks/<task_id>/ai-recommend
ai_recommend(task_id) ==
    /\ aiPc = "idle"
    /\ IF task_id \notin DOMAIN tasks
       THEN /\ resp' = make_error("ai_recommend", task_id, 404)
            /\ UNCHANGED <<chat_history, aiVars>>
            /\ UNCHANGED <<storeVars, threadVars>>
       ELSE StartCall("ai_recommend", task_id, <<>>,
                      <<Entry("system", Str(<<"s">>)), Entry("user", Str(<<"p">>))>>)

ChatBodies == {
    [message |-> Str(<<" ", "h">>), history |-> "absent"],
    [message |-> Str(<<"j">>), history |-> "given"],
    [message |-> Str(<<" ">>), history |-> "absent"],
    [message |-> AbsentS, history |-> "given"] }

\* The history a client sends along
GivenHistory == <<Entry("user", Str(<<"q">>)), Entry("tool", Str(<<"x">>)),
                  Entry("assistant", Str(<<"a">>))>>

\* POST /chat
chat(data) ==
    LET message == Strip(OrEmpty(data.message))
        history == IF data.history = "absent" THEN chat_history ELSE GivenHistory
    IN /\ aiPc = "idle"
       /\ Len(chat_history) < 2 * MaxChat
       /\ IF message = <<>>
          THEN /\ resp' = make_error("chat", 0, 400)
               /\ UNCHANGED <<chat_history, aiVars>>
               /\ UNCHANGED <<storeVars, threadVars>>
          ELSE StartCall("chat", 0, message,
                         <<Entry("system", Str(<<"s">>))>>
                             \o LastN(history, HistoryWindow)
                             \o <<Entry("user", Str(message))>>)

\* lines 56-84: one iteration of the retry loop up to its return, raise or sleep
HttpAttempt(r) ==
    /\ aiPc = "loop"
    /\ attempt < max_retries
    /\ httpCalls' = httpCalls + 1
    /\ UNCHANGED <<env, attempt, sleeps, call>>
    /\ UNCHANGED <<storeVars, threadVars>>
    /\ CASE r.kind = "text" -> Complete(Returned(Str(r.text)))
         [] r.kind = "empty_text" -> Complete(Returned(Str(<<>>)))
         [] r.kind = "no_text" -> Complete(Returned(Str(Fallback)))
         [] r.kind = "no_candidates" -> Complete(Raised("RuntimeError"))
         [] r.kind = "transport" -> Complete(Raised("RuntimeError"))
         [] r.kind = "http" ->
                IF ShouldRetry(r.code, attempt)
                THEN /\ aiPc' = "sleep"
                     /\ UNCHANGED <<resp, chat_history>>
                ELSE Complete(Raised("RuntimeError"))

\* lines 78-81: time.sleep(wait); continue.  A loop left without a return
\* makes the function return None.
Backoff ==
    /\ aiPc = "sleep"
    /\ sleeps' = Append(sleeps, (attempt + 1) * BackoffUnit)
    /\ attempt' = attempt + 1
    /\ UNCHANGED <<env, httpCalls, call>>
    /\ UNCHANGED <<storeVars, threadVars>>
    /\ IF attempt + 1 < max_retries
       THEN /\ aiPc' = "loop"
            /\ UNCHANGED <<resp, chat_history>>
       ELSE Complete([kind |-> "return", text |-> NullS, exc |-> "none"])

---------------------------------------------------------------------------
(* The service *)

InitStores ==
    /\ tasks = seed_tasks
    /\ notes = seed_notes
    /\ chat_history = <<>>
    /\ now = ImportTime + 1
    /\ resp = make_error("none", 0, 0)
    /\ nwrites = 0
    /\ nreads = 0
    /\ created = {}
    /\ added = {}

InitIdle ==
    /\ aiPc = "idle"
    /\ attempt = 0
    /\ sleeps = <<>>
    /\ httpCalls = 0
    /\ call = [op |-> "none", id |-> 0, message |-> <<>>, sent |-> <<>>]

\* No request is inside list_tasks or update_task
InitThreads ==
    /\ lpc = "idle"
    /\ lcur = 0
    /\ lnow = 0
    /\ lfilter = "absent"
    /\ lfb = NullT
    /\ lst = NullT
    /\ upc = "idle"
    /\ uid = 0
    /\ udata = NoBody
    /\ settled = {}

Init == InitStores /\ InitIdle /\ InitThreads /\ env = Unset

ListTasks == \E f \in StatusFilters : list_tasks(f)
GetTask == \E id \in PathIds : get_task(id)
CreateTask == \E data \in CreateBodies : create_task(data)
UpdateTask == \E id \in PathIds, data \in UpdateBodies : update_task(id, data)
DeleteTask == \E id \in PathIds : delete_task(id)
ListNotes == \E id \in PathIds : list_notes(id)
AddNote == \E id \in PathIds, data \in NoteBodies : add_note(id, data)

Next ==
    \/ ListTasks
    \/ GetTask
    \/ CreateTask
    \/ UpdateTask
    \/ DeleteTask
    \/ ListNotes
    \/ AddNote
    \/ Tick

Spec == Init /\ [][Next]_vars

\* The routes that write the stores, with any number of list calls.
ListTasksAgain == \E f \in StatusFilters : list_tasks_body(f) /\ UNCHANGED nreads

NextLists ==
    \/ ListTasksAgain
    \/ CreateTask
    \/ UpdateTask
    \/ AddNote
    \/ Tick

SpecLists == Init /\ [][NextLists]_vars

---------------------------------------------------------------------------
(* GET /tasks and PATCH /tasks/<task_id> served by two threads.  app.run()  *)
(* serves each request in a thread of its own and the handlers take no     *)
(* lock, so the reads and writes of the two handlers interleave.           *)

\* What a step of list_tasks leaves alone
ListFrame ==
    /\ UNCHANGED <<notes, chat_history, now, nwrites, created, added>>
    /\ UNCHANGED <<aiVars, updateLocals>>

\* What a step of update_task leaves alone
UpdateFrame ==
    /\ UNCHANGED <<notes, chat_history, now, nreads, created, added>>
    /\ UNCHANGED <<aiVars, listLocals>>

\* lines 136-142: the filter and the clock are read, the loop starts
ListBegin(f) ==
    /\ lpc = "idle"
    /\ nreads < MaxReads
    /\ nreads' = nreads + 1
    /\ lpc' = "top"
    /\ lcur' = 1
    /\ lnow' = now
    /\ lfilter' = f
    /\ UNCHANGED <<lfb, lst, tasks, resp>>
    /\ ListFrame

\* lines 143-147: the next task of tasks.values(), skipped when completed
ListTop ==
    /\ lpc = "top"
    /\ IF lcur \notin DOMAIN tasks
       THEN /\ lpc' = "respond"
            /\ UNCHANGED <<lcur, lfb, lst>>
       ELSE IF tasks[lcur].status = "completed"
       THEN /\ lcur' = lcur + 1
            /\ UNCHANGED <<lpc, lfb, lst>>
       ELSE /\ lpc' = "finish"
            /\ lfb' = tasks[lcur].finishBy
            /\ lst' = tasks[lcur].startTime
            /\ UNCHANGED lcur
    /\ UNCHANGED <<nreads, lnow, lfilter, tasks, resp>>
    /\ ListFrame

\* lines 148-151: the parse of finish_by and the test before the writes
ListFinishCheck ==
    /\ lpc = "finish"
    /\ lpc' = IF /\ Truthy(lfb)
                 /\ FromIso(lfb).ok
                 /\ FromIso(lfb).at < lnow
                 /\ tasks[lcur].status # "completed"
              THEN "set_pending" ELSE "start"
    /\ UNCHANGED <<nreads, lcur, lnow, lfilter, lfb, lst, tasks, resp>>
    /\ ListFrame

\* line 152
ListSetPending ==
    /\ lpc = "set_pending"
    /\ tasks' = [tasks EXCEPT ![lcur].status = "pending"]
    /\ lpc' = "set_overdue"
    /\ UNCHANGED <<nreads, lcur, lnow, lfilter, lfb, lst, resp>>
    /\ ListFrame

\* line 153
ListSetOverdue ==
    /\ lpc = "set_overdue"
    /\ tasks' = [tasks EXCEPT ![lcur].overdue = TRUE]
    /\ lpc' = "start"
    /\ UNCHANGED <<nreads, lcur, lnow, lfilter, lfb, lst, resp>>
    /\ ListFrame

\* lines 156-159: the tests before the write of in-progress
ListStartCheck ==
    /\ lpc = "start"
    /\ IF /\ Truthy(lst)
          /\ tasks[lcur].status = "pending"
          /\ FromIso(lst).ok
          /\ FromIso(lst).at <= lnow
       THEN lpc' = "set_in_progress" /\ UNCHANGED lcur
       ELSE lpc' = "top" /\ lcur' = lcur + 1
    /\ UNCHANGED <<nreads, lnow, lfilter, lfb, lst, tasks, resp>>
    /\ ListFrame

\* line 160
ListSetInProgress ==
    /\ lpc = "set_in_progress"
    /\ tasks' = [tasks EXCEPT ![lcur].status = "in-progress"]
    /\ lpc' = "top"
    /\ lcur' = lcur + 1
    /\ UNCHANGED <<nreads, lnow, lfilter, lfb, lst, resp>>
    /\ ListFrame

\* lines 164-171
ListRespond ==
    /\ lpc = "respond"
    /\ resp' = Response("list", 0, 200, ListView(tasks, lfilter), <<>>)
    /\ lpc' = "idle"
    /\ UNCHANGED <<nreads, lcur, lnow, lfilter, lfb, lst, tasks>>
    /\ ListFrame

\* The bodies of the update requests served next to a list request
ThreadBodies == {
    [NoBody EXCEPT !.status = "completed"],
    [NoBody EXCEPT !.status = "in-progress", !.title = Str(<<" ">>)],
    [NoBody EXCEPT !.finishBy = Naive(0)],
    [NoBody EXCEPT !.startTime = Naive(0), !.finishBy = Naive(0)] }

\* lines 216-225: the lookup, the status check and the write of the status
UpdateBegin(task_id, data) ==
    /\ upc = "idle"
    /\ nwrites < MaxOps
    /\ nwrites' = nwrites + 1
    /\ uid' = task_id
    /\ udata' = data
    /\ settled' = settled \ {task_id}
    /\ IF task_id \notin DOMAIN tasks
       THEN /\ resp' = make_error("update", task_id, 404)
            /\ UNCHANGED <<tasks, upc>>
       ELSE IF data.status # "absent" /\ data.status \notin Statuses
       THEN /\ resp' = make_error("update", task_id, 400)
            /\ UNCHANGED <<tasks, upc>>
       ELSE /\ tasks' = [tasks EXCEPT ![task_id] = SetStatus(@, data)]
            /\ upc' = "fields"
            /\ UNCHANGED resp
    /\ UpdateFrame

\* lines 227-246: the title check and the writes of the other members
UpdateFields ==
    /\ upc = "fields"
    /\ IF udata.title.k # "absent" /\ Strip(OrEmpty(udata.title)) = <<>>
       THEN /\ resp' = make_error("update", uid, 400)
            /\ upc' = "idle"
            /\ UNCHANGED tasks
       ELSE /\ tasks' = [tasks EXCEPT ![uid] =
                SetRest(SetDescription(SetTitle(@, udata), udata), udata)]
            /\ upc' = "clear"
            /\ UNCHANGED resp
    /\ UNCHANGED <<nwrites, uid, udata, settled>>
    /\ UpdateFrame

\* lines 248-252: overdue is removed if the status read now is completed,
\* and the request is answered
UpdateReturn ==
    /\ upc = "clear"
    /\ tasks' = [tasks EXCEPT ![uid] = ClearOverdue(@)]
    /\ resp' = Response("update", uid, 200, <<enrich_task(tasks'[uid])>>, <<>>)
    /\ upc' = "idle"
    /\ settled' = IF udata.status = "completed" THEN settled \cup {uid} ELSE settled
    /\ UNCHANGED <<nwrites, uid, udata>>
    /\ UpdateFrame

ListBeginAny == \E f \in StatusFilters : ListBegin(f)
UpdateBeginAny == \E id \in PathIds, data \in ThreadBodies : UpdateBegin(id, data)

NextThreads ==
    \/ ListBeginAny
    \/ ListTop
    \/ ListFinishCheck
    \/ ListSetPending
    \/ ListSetOverdue
    \/ ListStartCheck
    \/ ListSetInProgress
    \/ ListRespond
    \/ UpdateBeginAny
    \/ UpdateFields
    \/ UpdateReturn
    \/ Tick

SpecThreads == Init /\ [][NextThreads]_vars

\* The AI routes.  The key is read from the environment once, at import.
InitAI == InitStores /\ InitIdle /\ InitThreads /\ env \in EnvKeys

AiRecommend == \E id \in PathIds : ai_recommend(id)
Chat == \E data \in ChatBodies : chat(data)
Request == \E r \in Outcomes : HttpAttempt(r)

NextAI ==
    \/ AiRecommend
    \/ Chat
    \/ Request
    \/ Backoff

\* urlopen() returns or raises within its 60 s timeout and time.sleep()
\* returns, so a call in flight keeps moving.
SpecAI == InitAI /\ [][NextAI]_vars /\ WF_vars(Request) /\ WF_vars(Backoff)

---------------------------------------------------------------------------
(* Properties *)

\* A timestamp that is a well-formed ISO string denoting an instant before n
IsPast(v, n) == v.fmt \in {"naive", "Z", "plus", "minus"} /\ Denotes(v) < n

NotesOf(task_id) == {n \in DOMAIN notes : notes[n].taskId = task_id}

\* C1: once a DELETE of a task id has been served, neither that task nor any
\* note of it is in the stores (the delete of a stored task removes both in
\* the one step, the delete of an id that is not stored is answered 404).
C1_DeleteCascades ==
    resp.op = "delete" =>
        /\ resp.code \in {200, 404}
        /\ resp.id \notin DOMAIN tasks
        /\ NotesOf(resp.id) = {}

\* C2: no stored task is completed and overdue at once, whichever request
\* completed it.
C2_CompletedNotOverdue ==
    \A id \in DOMAIN tasks : ~(tasks[id].status = "completed" /\ tasks[id].overdue)

\* C3: a GET of one task whose finishBy is past, which is not completed and
\* has no startTime, answers status pending and overdue true, whether or not
\* a list call came before.
C3_GetDerives ==
    [][\A id \in DOMAIN tasks :
          (/\ resp'.op = "get"
           /\ get_task(id)
           /\ tasks[id].status # "completed"
           /\ IsPast(tasks[id].finishBy, now)
           /\ ~Truthy(tasks[id].startTime))
          => /\ resp'.tasksOut[1].status = "pending"
             /\ resp'.tasksOut[1].overdue]_vars

\* C4 as stated: a list call leaves every task that was in-progress with a
\* past finishBy pending and overdue, whatever its startTime.
C4_PastDuePending ==
    [][\A f \in StatusFilters : (resp'.op = "list" /\ list_tasks(f)) =>
          \A id \in DOMAIN tasks :
              (tasks[id].status = "in-progress" /\ IsPast(tasks[id].finishBy, now))
              => (tasks'[id].status = "pending" /\ tasks'[id].overdue)]_vars

\* The derivation reads the startTime as a time not after n
Started(v, n) == Truthy(v) /\ FromIso(v).ok /\ FromIso(v).at <= n

\* C4 amended: a list call leaves every task that was in-progress with a past
\* finishBy overdue; its status is pending, unless its startTime is set and
\* is read by the derivation as a time not after now, and then in-progress.
C4_PastDueOverdue ==
    [][\A f \in StatusFilters : (resp'.op = "list" /\ list_tasks(f)) =>
          \A id \in DOMAIN tasks :
              (tasks[id].status = "in-progress" /\ IsPast(tasks[id].finishBy, now))
              => /\ tasks'[id].overdue
                 /\ tasks'[id].status = IF Started(tasks[id].startTime, now)
                                        THEN "in-progress" ELSE "pending"]_vars

C4_Witness ==
    /\ resp.op = "list"
    /\ \E id \in DOMAIN tasks :
          /\ tasks[id].overdue
          /\ tasks[id].status = "in-progress"
          /\ IsPast(tasks[id].finishBy, now)
          /\ Started(tasks[id].startTime, now)

\* C5: for every stored task, whatever its status, timestamps and overdue
\* flag, two derivation passes at the same clock reading give the task that
\* one pass gives.
C5_DeriveIdempotent ==
    \A id \in DOMAIN tasks :
        DeriveTask(DeriveTask(tasks[id], now), now) = DeriveTask(tasks[id], now)

C5_Witness ==
    /\ resp.op = "list"
    /\ \E id \in DOMAIN tasks :
          /\ tasks[id].overdue
          /\ tasks[id].status = "pending"
          /\ IsPast(tasks[id].finishBy, now)
          /\ Truthy(tasks[id].startTime)
          /\ ~Started(tasks[id].startTime, now)

\* The request names member f of the task
Named(data, f) ==
    CASE f \in {"title", "description"} -> data[f].k # "absent"
      [] f \in {"startTime", "finishBy", "dueDate"} -> data[f].fmt # "absent"
      [] f \in {"status", "reminderEnabled"} -> data[f] # "absent"
      [] OTHER -> FALSE

\* C6: an update answered 200 changes, of the stores, only the members of
\* that task the request names, and clears overdue when the status it leaves
\* is completed; no step changes the id or the createdAt of a stored task.
C6_UpdateFrame ==
    [][/\ \A id \in DOMAIN tasks, data \in UpdateBodies :
             (resp'.op = "update" /\ resp'.code = 200 /\ update_task(id, data)) =>
                 /\ notes' = notes
                 /\ DOMAIN tasks' = DOMAIN tasks
                 /\ \A other \in DOMAIN tasks \ {id} : tasks'[other] = tasks[other]
                 /\ \A f \in BodyFields :
                        ~Named(data, f) => tasks'[id][f] = tasks[id][f]
                 /\ tasks'[id].overdue =
                        IF tasks'[id].status = "completed" THEN FALSE
                        ELSE tasks[id].overdue
       /\ \A id \in DOMAIN tasks \cap DOMAIN tasks' :
             /\ tasks'[id].id = tasks[id].id
             /\ tasks'[id].createdAt = tasks[id].createdAt]_vars

C6_Witness ==
    /\ resp.op = "update"
    /\ resp.code = 200
    /\ tasks[resp.id].title = <<"t">>
    /\ tasks[resp.id].reminderEnabled
    /\ tasks[resp.id].description = <<>>
    /\ tasks[resp.id].status = "completed"

\* The requests and sleeps of the call in flight or last served
C7_Bounded ==
    /\ httpCalls <= max_retries
    /\ sleeps \in {<<>>, <<15>>, <<15, 30>>}
    /\ aiPc = "idle" => httpCalls \in {0} \cup {Len(sleeps) + 1}
    /\ aiPc = "loop" => httpCalls = Len(sleeps) /\ httpCalls < max_retries
    /\ aiPc = "sleep" => httpCalls = Len(sleeps) + 1 /\ httpCalls < max_retries

\* What one request leads to
C7_Step ==
    \A r \in Outcomes : (httpCalls' = httpCalls + 1 /\ HttpAttempt(r)) =>
        IF r.code = 429 /\ httpCalls < 2
        THEN aiPc' = "sleep" /\ resp' = resp
        ELSE /\ aiPc' = "idle"
             /\ resp'.op = call.op
             /\ \/ resp'.code = 200 /\ resp'.text.k = "str"
                \/ resp'.code = 500 /\ resp'.exc = "RuntimeError"

\* C7: a call makes at most 3 HTTP requests and sleeps 15 s and then 30 s
\* between them; a request is followed by another only when it was answered
\* 429 and was not the third; every other request ends the call, with a text
\* or with an error; a call in flight ends.
C7_Retry ==
    /\ []C7_Bounded
    /\ [][C7_Step]_vars
    /\ (aiPc # "idle") ~> (aiPc = "idle")

C7_Witness ==
    /\ aiPc = "idle"
    /\ httpCalls = 3
    /\ sleeps = <<15, 30>>
    /\ resp.code = 500

\* C8: with the key missing from the environment or equal to the
\* placeholder, no HTTP request is made and every recommendation or chat
\* call that reaches the gateway is answered with the configuration error.
C8_NoKeyNoNetwork ==
    env \in {Unset, Placeholder} =>
        /\ httpCalls = 0
        /\ (resp.op \in {"ai_recommend", "chat"} /\ resp.code \notin {400, 404})
               => resp.exc = "ValueError"

\* C9: every stored task was stored by a create request and every stored
\* note by an add-note request (the stores are empty when serving starts).
C9_OnlyCreated ==
    /\ DOMAIN tasks \subseteq created
    /\ DOMAIN notes \subseteq added

\* No note without its task
C10_NoOrphan ==
    \A n \in DOMAIN notes : notes[n].taskId \in DOMAIN tasks

\* An add-note request for an id that is not stored
C10_Rejects ==
    \A id \in PathIds \ DOMAIN tasks, data \in NoteBodies :
        (resp'.op = "add_note" /\ add_note(id, data))
            => (notes' = notes /\ tasks' = tasks /\ resp'.code = 404)

\* C10: the task of every stored note is a stored task, and an add-note
\* request for an id that is not stored is answered 404 and stores nothing.
C10_NotesHaveTasks ==
    /\ []C10_NoOrphan
    /\ [][C10_Rejects]_vars

C10_Witness ==
    /\ resp.op = "add_note"
    /\ resp.code = 404
    /\ added # {}

\* C11: an add-note request for a stored task with a content that is not
\* empty after trimming is answered 201, raises the notesCount of that task
\* by exactly one, leaves the notesCount of every other task as it was and
\* makes the stored (trimmed) content the task's latestNote; every other
\* add-note request, markComplete or not, leaves notes and tasks as they were.
C11_AddNote ==
    [][\A id \in PathIds, data \in NoteBodies :
          (resp'.op = "add_note" /\ add_note(id, data)) =>
              IF id \in DOMAIN tasks /\ Strip(OrEmpty(data.content)) # <<>>
              THEN /\ resp'.code = 201
                   /\ DOMAIN tasks' = DOMAIN tasks
                   /\ EnrichIn(tasks'[id], notes').notesCount
                          = enrich_task(tasks[id]).notesCount + 1
                   /\ \A other \in DOMAIN tasks \ {id} :
                          EnrichIn(tasks'[other], notes').notesCount
                              = enrich_task(tasks[other]).notesCount
                   /\ resp'.notesOut[1].content = Strip(OrEmpty(data.content))
                   /\ EnrichIn(tasks'[id], notes').latestNote
                          = Str(resp'.notesOut[1].content)
              ELSE /\ resp'.code \in {400, 404}
                   /\ notes' = notes
                   /\ tasks' = tasks]_vars

C11_Witness ==
    /\ resp.op = "add_note"
    /\ resp.code = 201
    /\ resp.id \in DOMAIN tasks
    /\ enrich_task(tasks[resp.id]).notesCount = 4
    /\ enrich_task(tasks[resp.id]).latestNote = Str(<<"n">>)

\* C12: a request answered 200 with a body that has no candidates, or whose
\* first candidate has no content, no parts or no text part, ends the call
\* with the fallback message as its text and not with an error.
C12_FallbackOnNoText ==
    [][\A r \in Outcomes :
          (r.kind \in {"no_text", "no_candidates"} /\ HttpAttempt(r))
              => /\ resp'.code = 200
                 /\ resp'.text = Str(Fallback)]_vars

\* C13: a list call with one of the three statuses as its filter answers
\* with exactly the stored tasks whose status after the derivation is the
\* filter, and with any other or no filter with every stored task; each task
\* appears once, enriched, and no task comes before one created later.
C13_ListFilter ==
    [][\A f \in StatusFilters : (resp'.op = "list" /\ list_tasks(f)) =>
          LET out == resp'.tasksOut
              want == IF f \in Statuses
                      THEN {id \in DOMAIN tasks' : tasks'[id].status = f}
                      ELSE DOMAIN tasks'
          IN /\ {out[i].id : i \in 1..Len(out)} = want
             /\ Len(out) = Cardinality(want)
             /\ \A i \in 1..Len(out) : out[i] = EnrichIn(tasks'[out[i].id], notes')
             /\ \A i \in 1..Len(out), j \in 1..Len(out) :
                    i < j => out[i].createdAt >= out[j].createdAt]_vars

C13_Witness ==
    /\ resp.op = "list"
    /\ Len(resp.tasksOut) \in 2..(Cardinality(DOMAIN tasks) - 1)
    /\ resp.tasksOut[1].createdAt > resp.tasksOut[Len(resp.tasksOut)].createdAt
    /\ \A i \in 1..Len(resp.tasksOut) : resp.tasksOut[i].status = "pending"
    /\ \E i \in 1..Len(resp.tasksOut) : resp.tasksOut[i].overdue

\* A string with no character other than white space
Blank(s) == \A i \in 1..Len(s) : s[i] \in WS

\* Every stored task has a title with a visible character and one of the
\* three statuses
C14_Valid ==
    \A id \in DOMAIN tasks :
        /\ ~Blank(tasks[id].title)
        /\ tasks[id].status \in Statuses

\* A create request with a blank title or a status outside the three
C14_CreateRejects ==
    \A data \in CreateBodies :
        (/\ resp'.op = "create"
         /\ create_task(data)
         /\ \/ Blank(OrEmpty(data.title))
            \/ data.status \notin Statuses \cup {"absent"})
        => (resp'.code = 400 /\ tasks' = tasks /\ notes' = notes)

\* C14: a create request whose title is missing, empty or only white space,
\* or whose status is supplied and is not one of the three, is answered 400
\* and stores nothing; every stored task has a non-blank title and one of
\* the three statuses after any sequence of requests and derivations.
C14_TitleStatus ==
    /\ []C14_Valid
    /\ [][C14_CreateRejects]_vars

C14_Witness ==
    /\ resp.op = "create"
    /\ resp.code = 400
    /\ \E id \in DOMAIN tasks : tasks[id].title = <<"t">>

\* A list call leaves every completed task as it was
C15_DeriveSkips ==
    \A f \in StatusFilters : (resp'.op = "list" /\ list_tasks(f)) =>
        \A id \in DOMAIN tasks :
            tasks[id].status = "completed" => tasks'[id] = tasks[id]

\* A step after which a completed task is no longer completed is an update
\* of that task whose body has another of the three statuses
C15_LeavesByUpdate ==
    \A id \in DOMAIN tasks :
        (tasks[id].status = "completed" /\ tasks'[id].status # "completed") =>
            \E data \in UpdateBodies :
                /\ data.status \in Statuses \ {"completed"}
                /\ resp'.op = "update"
                /\ update_task(id, data)

\* C15: the derivation of a list call changes no member of a completed
\* task, and a completed task stops being completed only in an update
\* request for that task that supplies another status.
C15_CompletedStays == [][C15_DeriveSkips /\ C15_LeavesByUpdate]_vars

C15_Witness ==
    /\ resp.op = "list"
    /\ \E id \in DOMAIN tasks :
          /\ tasks[id].status = "completed"
          /\ ~tasks[id].overdue
          /\ Truthy(tasks[id].finishBy)
          /\ FromIso(tasks[id].finishBy).ok
          /\ FromIso(tasks[id].finishBy).at < now
          /\ Started(tasks[id].startTime, now)

\* The derivation reads v as a time before n
ReadAsPast(v, n) == Truthy(v) /\ FromIso(v).ok /\ FromIso(v).at < n

IsPrefix(a, b) == Len(a) <= Len(b) /\ SubSeq(b, 1, Len(a)) = a

\* The step answers a chat request
C17_ChatAnswered ==
    /\ aiPc' = "idle"
    /\ resp'.op = "chat"
    /\ \/ aiPc # "idle"
       \/ \E data \in ChatBodies : chat(data)

\* C17: the chat history before a step is an initial part of the history
\* after it; the step that answers a chat request 200 appends the user's
\* (trimmed) message and then the assistant's reply and nothing else; every
\* other step, the answer 400 to an empty message and the answer 500 to a
\* failed call included, leaves the history as it was.
C17_HistoryAppendOnly ==
    [][/\ IsPrefix(chat_history, chat_history')
       /\ IF C17_ChatAnswered /\ resp'.code = 200
          THEN chat_history' = chat_history \o
                   <<Entry("user", Str(call.message)), Entry("assistant", resp'.text)>>
          ELSE chat_history' = chat_history]_vars

C17_Witness ==
    /\ resp.op = "chat"
    /\ resp.code = 500
    /\ httpCalls = 3
    /\ Len(chat_history) = 2
    /\ chat_history[1] = Entry("user", Str(<<"h">>))
    /\ chat_history[2] = Entry("assistant", Str(<<"r">>))

\* C18: an update request answered 400 leaves every stored task as it was;
\* so does, in particular, the request whose body has a valid status and an
\* empty or white-space title.
C18_RejectedUpdateAtomic ==
    [][\A id \in DOMAIN tasks, data \in UpdateBodies :
          (resp'.op = "update" /\ resp'.code = 400 /\ update_task(id, data))
              => tasks' = tasks]_vars

\* C19: right after the derivation of a list call, every overdue task has a
\* finishBy that is set and that the derivation reads as a time strictly
\* before now, whatever updates of finishBy came between two list calls.
C19_OverdueHasPastFinish ==
    [][\A f \in StatusFilters : (resp'.op = "list" /\ list_tasks_body(f)) =>
          \A id \in DOMAIN tasks' :
              tasks'[id].overdue => ReadAsPast(tasks'[id].finishBy, now)]_vars

\* C20: with list and update requests served by concurrent threads, a task
\* whose latest update has returned 200 with status completed, and which no
\* later update request has reached, is completed and not overdue, wherever
\* the steps of a list call fell among the steps of that update.
C20_CompletedSticks ==
    \A id \in settled : tasks[id].status = "completed" /\ ~tasks[id].overdue

===========================================================================
